---------------------------- MODULE Spec2Model ----------------------------
(***************************************************************************)
(* OceanGuard: the report store, the processing pipeline                   *)
(* (services/ingest.py), the classifier, credibility scorer, clusterer and *)
(* fusion engine it calls, the emergency fast path, the administrator      *)
(* validation hook and the broadcaster calls of app.py.                    *)
(*                                                                         *)
(* Numbers.  Every float of the source in [0,1] is kept as an integer      *)
(* number of ten-thousandths (0.175 is 1750); products are rescaled by     *)
(* integer division after each multiplication.                             *)
(*                                                                         *)
(* Inputs.  A report's text, place and timestamp are drawn from small      *)
(* tables of concrete values; what the string and geometry code of the     *)
(* source computes from them (keyword score, token set, text quality,      *)
(* great-circle distance, ISO rendering) is tabulated from the source run  *)
(* on those values, and the arithmetic on top of it is modelled.           *)
(***************************************************************************)
EXTENDS Integers, Sequences, FiniteSets, TLC

\* ------------------------------------------------------------------ bounds
MaxReports == 2
MaxValidations == 1
MaxBatch == 4
MaxAdmin == 2
MaxCluster == 3
MaxSubscribers == 2
MaxKeepalives == 1
MaxWorkers == 2
MaxGroup == 2
MaxFast == 3

\* --------------------------------------------------------------- constants
S == 10000
None == -1

\* ----------------------------------------------------------------- helpers
Min2(a, b) == IF a <= b THEN a ELSE b
Max2(a, b) == IF a >= b THEN a ELSE b
Abs(a) == IF a >= 0 THEN a ELSE 0 - a

\* A local variable of the code that is assigned once and read many times is
\* written  CHOOSE y \in {body : x \in {e}} : TRUE,  the value of body with x
\* bound to the value of e, so that e is computed once.

RECURSIVE SeqSum(_)
SeqSum(s) == IF s = << >> THEN 0 ELSE Head(s) + SeqSum(Tail(s))

RECURSIVE SetToSeq(_)
\* the members of a finite set of integers, ascending (rowid order)
SetToSeq(A) ==
    IF A = {} THEN << >>
    ELSE LET m == CHOOSE x \in A : \A y \in A : x <= y
         IN  <<m>> \o SetToSeq(A \ {m})

RECURSIVE SetToSeqStr(_)
\* the members of a finite set in some fixed order
SetToSeqStr(A) ==
    IF A = {} THEN << >>
    ELSE LET m == CHOOSE x \in A : TRUE
         IN  <<m>> \o SetToSeqStr(A \ {m})

SeqRange(s) == {s[i] : i \in 1..Len(s)}

\* ------------------------------------------------------------ input tables
\* Texts: what the string code of the source yields on three concrete texts
\*   odd   = "something odd here"
\*   flood = "flooding near marina, water rising fast"
\*   sos   = "EMERGENCY SOS from LoRa device D. Immediate assistance required!"
Texts == {"odd", "flood", "sos"}

\* three more texts for the classifier alone
\*   tremor  = "tremor felt at the pier"
\*   tide    = "high tide and tidal surge at the jetty"
\*   trapped = "people trapped, urgent rescue needed"
ClassifyTexts == Texts \cup {"tremor", "tide", "trapped"}

\* dedupe._tokenize(text.lower()) as a set
Tokens(t) ==
    CASE t = "odd"   -> {"something", "odd", "here"}
      [] t = "flood" -> {"flooding", "near", "marina", "water", "rising", "fast"}
      [] t = "sos"   -> {"emergency", "sos", "from", "lora", "device",
                         "immediate", "assistance", "required"}

\* the hazard_scores loop of extract_hazard_type: best kind and its score
KeywordKind(t) ==
    CASE t = "flood"  -> "flood"
      [] t = "tremor" -> "earthquake"
      [] t = "tide"   -> "tides"
      [] OTHER        -> "unknown"
KeywordScore(t) ==
    CASE t = "flood"  -> 6
      [] t = "tremor" -> 2
      [] t = "tide"   -> 4
      [] OTHER        -> 0

\* severity keyword tiers found in the preprocessed text
HasHighKeyword(t) == t \in {"sos", "trapped"}
HasMediumKeyword(t) == t = "flood"

\* score_text_quality(text)
TextQuality(t) ==
    CASE t = "odd" -> 4000 [] t = "flood" -> 7500 [] t = "sos" -> 8200

\* Places: marina = (13.05, 80.27), cuddalore = (11.7, 79.7)
Places == {"marina", "cuddalore"}

\* haversine_distance in metres
haversine_distance(p, q) == IF p = q THEN 0 ELSE 162377

\* Timestamps: minute m of 2026-02-03T04:mm:06.234567+00:00
Stamps == {0, 20}

\* ---------------------------------------------------------- classifier
\* nlp.py extract_hazard_type: (kind, base confidence)
extract_hazard_type(t) ==
    IF KeywordScore(t) = 0
    THEN [hazard_type |-> "unknown", confidence |-> 3000]
    ELSE [hazard_type |-> KeywordKind(t),
          confidence  |-> Min2(4000 + KeywordScore(t) * 500, 7000)]

\* nlp.py extract_severity_boost
extract_severity_boost(t) ==
    Min2((IF HasHighKeyword(t) THEN 2 ELSE 0)
         + (IF HasMediumKeyword(t) THEN 1 ELSE 0), 2)

\* nlp.py _apply_progressive_confidence: source_scaling.get(source, 0.25)
SourceScaling(source) ==
    CASE source = "citizen"      -> 25
      [] source = "social_media" -> 20
      [] source = "incois"       -> 80
      [] source = "lora_sos"     -> 95
      [] OTHER                   -> 25

apply_progressive_confidence(base, source) ==
    LET scaled == (base * SourceScaling(source)) \div 100
    IN  IF source \in {"citizen", "social_media"}
        THEN Max2(800, Min2(3500, scaled))
        ELSE IF source = "incois"
        THEN Max2(5000, Min2(8500, scaled))
        ELSE scaled

\* nlp.py _apply_media_verification_boost
apply_media_verification_boost(conf, has_media, media_verified) ==
    IF ~has_media THEN conf
    ELSE IF media_verified THEN Min2(9500, conf + 6000)
    ELSE Min2(7000, conf + 1500)

\* nlp.py classify_text (the texts of the table are non-empty)
classify_text(t, source, has_media, media_verified) ==
    LET e == extract_hazard_type(t)
    IN  [hazard_type    |-> e.hazard_type,
         confidence     |-> apply_media_verification_boost(
                               apply_progressive_confidence(e.confidence, source),
                               has_media, media_verified),
         severity_boost |-> extract_severity_boost(t)]

\* ---------------------------------------------------------- credibility
\* credibility.py score_source_reliability
score_source_reliability(source) ==
    CASE source = "incois"  -> 10000
      [] source = "lora"    -> 9500
      [] source = "citizen" -> 6000
      [] source = "social"  -> 4000
      [] OTHER              -> 3000

\* credibility.py score_media_presence
score_media_presence(has_path) == IF has_path THEN 8000 ELSE 2000

\* credibility.py score_gps_accuracy: both places are in range; 11.7/79.7
\* have one decimal (too imprecise), 13.05/80.27 have two
score_gps_accuracy(p) == IF p = "cuddalore" THEN 4000 ELSE 7000

\* credibility.py score_temporal_consistency: the reports are scored within
\* the hour of their timestamp; a missing timestamp scores 0.5
score_temporal_consistency(ts) == IF ts = None THEN 5000 ELSE 10000

\* credibility.py calculate_credibility: weighted average, weights sum to 1
calculate_credibility(source, t, p, ts, has_path) ==
    ( score_source_reliability(source) * 40
    + score_media_presence(has_path) * 15
    + score_gps_accuracy(p) * 15
    + TextQuality(t) * 15
    + score_temporal_consistency(ts) * 10
    + 5000 * 5 ) \div 100

\* ------------------------------------------------------------- clusterer
\* dedupe.py spatial_similarity (threshold 5 km)
spatial_similarity(p, q) ==
    LET d == haversine_distance(p, q)
    IN  IF d > 5000 THEN 0 ELSE Max2(0, S - (d * S) \div 5000)

\* dedupe.py temporal_similarity (threshold 30 minutes)
temporal_similarity(t1, t2) ==
    IF t1 = None \/ t2 = None THEN 5000
    ELSE LET d == Abs(t2 - t1)
         IN  IF d > 30 THEN 0 ELSE Max2(0, S - (d * S) \div 30)

\* dedupe.py jaccard_similarity on the token sets
jaccard_similarity(a, b) ==
    LET A == Tokens(a)
        B == Tokens(b)
    IN  IF A = {} /\ B = {} THEN S
        ELSE IF A = {} \/ B = {} THEN 0
        ELSE (Cardinality(A \cap B) * S) \div Cardinality(A \cup B)

\* dedupe.py combined_similarity, weights 0.4 / 0.3 / 0.3
combined_similarity(r1, r2) ==
    ( spatial_similarity(r1.place, r2.place) * 4
    + temporal_similarity(r1.ts, r2.ts) * 3
    + jaccard_similarity(r1.text, r2.text) * 3 ) \div 10

CombinedThreshold == 6000

\* a clusterer that joins the group of the first report that matches
find_duplicates_first_match(new, existing) ==
    IF existing = << >>
    THEN [raised |-> FALSE, group_id |-> 1, is_duplicate |-> FALSE]
    ELSE
      LET idx     == 1..Len(existing)
          sim(i)  == combined_similarity(new, existing[i])
          matched == {i \in idx : sim(i) >= CombinedThreshold}
      IN  IF matched # {}
          THEN LET first == CHOOSE i \in matched : \A j \in matched : i <= j
               IN  [raised |-> FALSE,
                    group_id |-> existing[first].group_id,
                    is_duplicate |-> TRUE]
          ELSE IF \E i \in idx : existing[i].group_id = None
          THEN [raised |-> TRUE, group_id |-> None, is_duplicate |-> FALSE]
          ELSE LET mx == CHOOSE g \in {existing[i].group_id : i \in idx} :
                            \A i \in idx : existing[i].group_id <= g
               IN  [raised |-> FALSE, group_id |-> mx + 1,
                    is_duplicate |-> FALSE]

\* dedupe.py find_duplicates.  existing is the list of processed reports
\* (dicts with id and group_id) in query order.  raised = TRUE is the
\* TypeError of max()/+ 1 on a group_id that is None.
find_duplicates(new, existing) ==
    IF existing = << >>
    THEN [raised |-> FALSE, group_id |-> 1, is_duplicate |-> FALSE]
    ELSE
      LET idx     == 1..Len(existing)
          sim(i)  == combined_similarity(new, existing[i])
          matched == {i \in idx : sim(i) >= CombinedThreshold}
      IN  IF matched # {}
          THEN LET best == CHOOSE i \in matched :
                              /\ \A j \in matched : sim(j) <= sim(i)
                              /\ \A j \in matched : sim(j) = sim(i) => i <= j
               IN  [raised |-> FALSE,
                    group_id |-> existing[best].group_id,
                    is_duplicate |-> TRUE]
          ELSE IF \E i \in idx : existing[i].group_id = None
          THEN [raised |-> TRUE, group_id |-> None, is_duplicate |-> FALSE]
          ELSE LET mx == CHOOSE g \in {existing[i].group_id : i \in idx} :
                            \A i \in idx : existing[i].group_id <= g
               IN  [raised |-> FALSE, group_id |-> mx + 1,
                    is_duplicate |-> FALSE]


\* ---------------------------------------------------------------- fusion
\* fusion.py source_weights.get(source, 0.3), in hundredths
FusionSourceWeight(source) ==
    CASE source = "incois"  -> 90
      [] source = "lora"    -> 95
      [] source = "citizen" -> 60
      [] source = "social"  -> 40
      [] OTHER              -> 30

\* math.log10(n + 1), math.sqrt(n / 10), math.sqrt(n / 5) for the volumes
\* the model reaches
Log10Succ(n) ==
    CASE n = 1 -> 3010 [] n = 2 -> 4771 [] n = 3 -> 6020
      [] n = 4 -> 6989 [] n = 5 -> 7781 [] n = 6 -> 8450
SqrtTenth(n) ==
    CASE n = 1 -> 3162 [] n = 2 -> 4472 [] n = 3 -> 5477
      [] n = 4 -> 6324 [] n = 5 -> 7071 [] n = 6 -> 7745
SqrtFifth(n) ==
    CASE n = 1 -> 4472 [] n = 2 -> 6324 [] n = 3 -> 7745
      [] n = 4 -> 8944 [] n = 5 -> 10000 [] n = 6 -> 10954

\* fusion.py _calculate_volume_factor
calculate_volume_factor(volume, source) ==
    IF volume <= 0 THEN 0
    ELSE IF source \in {"incois", "lora"}
    THEN Min2(S, 8000 + (10 * Log10Succ(volume)) \div 100)
    ELSE IF source = "citizen"
    THEN Min2(9500, 2500 + (25 * Log10Succ(volume)) \div 100
                         + Min2(4500, (10 * SqrtTenth(volume)) \div 100))
    ELSE IF source = "social"
    THEN Min2(8000, 1500 + (20 * Log10Succ(volume)) \div 100
                         + Min2(3500, (8 * SqrtFifth(volume)) \div 100))
    ELSE Min2(5000, 1000 + (15 * Log10Succ(volume)) \div 100)

\* fusion.py _calculate_source_diversity_boost, in tenths
calculate_source_diversity_boost(U) ==
    LET n == Cardinality(U)
    IN  IF n = 1 THEN 10
        ELSE LET b0 == IF n = 2 THEN 15 ELSE IF n = 3 THEN 20 ELSE 25
                 b1 == b0 + (IF "incois" \in U /\ "citizen" \in U THEN 3 ELSE 0)
                          + (IF "incois" \in U /\ "lora" \in U THEN 4 ELSE 0)
                          + (IF "lora" \in U /\ "citizen" \in U THEN 2 ELSE 0)
             IN  Min2(30, b1)

\* fusion.py _calculate_media_evidence_boost, in ten-thousandths
calculate_media_evidence_boost(verified, total) ==
    IF total = 0 THEN S
    ELSE LET ratio == (verified * S) \div total
             verification == S + ratio \div 2
             volume == IF verified >= 3 THEN 13
                       ELSE IF verified >= 2 THEN 12 ELSE 10
         IN  Min2(25000, (((12 * verification) \div 10) * volume) \div 10)

\* the per-report confidence of calculate_weighted_confidence, media boosted
ReportConfidence(r) ==
    LET base == (r.nlp_conf * r.credibility) \div S
    IN  IF r.has_media /\ r.media_verified THEN Min2(9500, base + 4000)
        ELSE IF r.has_media THEN Min2(7000, base + 1500)
        ELSE base

\* fusion.py calculate_weighted_confidence
calculate_weighted_confidence(reports) ==
    IF reports = << >> THEN 0
    ELSE
      LET idx      == 1..Len(reports)
          U        == {reports[i].source : i \in idx}
          of(s)    == {i \in idx : reports[i].source = s}
          sumOf(s) == SeqSum([k \in 1..Cardinality(of(s)) |->
                                ReportConfidence(reports[SetToSeq(of(s))[k]])])
          contribution(s) ==
              LET volume == Cardinality(of(s))
                  avg    == sumOf(s) \div volume
              IN  (((avg * calculate_volume_factor(volume, s)) \div S)
                     * FusionSourceWeight(s)) \div 100
          srcs     == SetToSeqStr(U)
          total_confidence == SeqSum([k \in 1..Len(srcs) |-> contribution(srcs[k])])
          total_weight     == SeqSum([k \in 1..Len(srcs) |-> FusionSourceWeight(srcs[k])])
          base     == IF total_weight > 0
                      THEN (total_confidence * 100) \div total_weight ELSE 0
          media    == {i \in idx : reports[i].has_media}
          verified == {i \in media : reports[i].media_verified}
          cap      == IF verified # {} THEN 9800 ELSE 9500
          boosted  == (((base * calculate_source_diversity_boost(U)) \div 10)
                         * calculate_media_evidence_boost(
                               Cardinality(verified), Cardinality(media))) \div S
      IN  Min2(cap, boosted)

\* fusion.py hazard_priorities, in hundredths; an unlisted kind gets 0.3
hazard_priorities(k) ==
    CASE k = "emergency"  -> 100
      [] k = "tsunami"    -> 95
      [] k = "earthquake" -> 90
      [] k = "landslide"  -> 85
      [] k = "flood"      -> 80
      [] k = "tides"      -> 70
      [] OTHER            -> 30

\* the weighted vote of one report in determine_consensus_hazard_type
VoteWeight(r) ==
    (((FusionSourceWeight(r.source) * r.nlp_conf) \div 100) * r.credibility) \div S

\* fusion.py determine_consensus_hazard_type: max() over the dict returns the
\* first kind, in order of first appearance, with the largest vote
determine_consensus_hazard_type(reports) ==
    IF reports = << >> THEN "unknown"
    ELSE
      LET idx      == 1..Len(reports)
          votes(k) == SeqSum([i \in idx |->
                         IF reports[i].nlp_type = k THEN VoteWeight(reports[i]) ELSE 0])
          first(k) == CHOOSE i \in idx :
                         /\ reports[i].nlp_type = k
                         /\ \A j \in idx : reports[j].nlp_type = k => i <= j
          kinds    == {reports[i].nlp_type : i \in idx}
      IN  CHOOSE k \in kinds :
             /\ \A l \in kinds : votes(l) <= votes(k)
             /\ \A l \in kinds : votes(l) = votes(k) => first(k) <= first(l)

\* fusion.py calculate_weighted_severity.  The pipeline passes no 'severity'
\* key, so the base severity is 3; round() of the quotient is half-to-even.
calculate_weighted_severity(reports) ==
    IF reports = << >> THEN 1
    ELSE
      LET idx    == 1..Len(reports)
          sev(i) == Min2(3 + reports[i].severity_boost, 5)
          w(i)   == (FusionSourceWeight(reports[i].source)
                        * reports[i].credibility) \div 100
          num    == SeqSum([i \in idx |-> sev(i) * w(i)])
          den    == SeqSum([i \in idx |-> w(i)])
          q      == num \div den
          r2     == 2 * (num % den)
          rounded == IF r2 > den THEN q + 1
                     ELSE IF r2 < den THEN q
                     ELSE IF q % 2 = 0 THEN q ELSE q + 1
      IN  Max2(1, Min2(5, rounded))

\* a status table whose confirmed row starts at the emergency threshold
determine_status_late_confirm(confidence, hazard_type, has_lora) ==
    IF has_lora \/ hazard_type = "emergency" THEN "emergency"
    ELSE IF confidence >= 9000
    THEN (IF hazard_type \in {"tsunami", "earthquake"}
          THEN "emergency" ELSE "confirmed")
    ELSE IF confidence >= 3000 THEN "pending"
    ELSE "review"

\* fusion.py determine_status
determine_status(confidence, hazard_type, has_lora) ==
    IF has_lora \/ hazard_type = "emergency" THEN "emergency"
    ELSE IF confidence >= 9000
    THEN (IF hazard_type \in {"tsunami", "earthquake"}
          THEN "emergency" ELSE "confirmed")
    ELSE IF confidence >= 8500 THEN "confirmed"
    ELSE IF confidence >= 3000 THEN "pending"
    ELSE "review"

\* an alert rule that looks at the status alone
should_create_alert_by_status(fusion_result) == fusion_result.status = "emergency"

\* fusion.py should_create_alert
should_create_alert(fusion_result) ==
    fusion_result.confidence >= 8500 \/ fusion_result.status = "emergency"

\* fusion.py create_evidence_json with dedupe.py get_group_statistics: the
\* fields of the evidence blob that carry data of the reports
create_evidence_json(reports) ==
    LET idx == 1..Len(reports)
        stamps == {reports[i].ts : i \in idx} \ {None}
    IN  [fused              |-> TRUE,
         report_count       |-> Len(reports),
         source_counts      |-> {Cardinality({i \in idx : reports[i].source = s}) :
                                   s \in {reports[i].source : i \in idx}},
         confidence_scores  |-> [i \in idx |-> reports[i].nlp_conf],
         credibility_scores |-> [i \in idx |-> reports[i].credibility],
         report_ids         |-> [i \in idx |-> reports[i].id],
         earliest           |-> IF stamps = {} THEN None
                                ELSE CHOOSE t \in stamps : \A u \in stamps : t <= u,
         latest             |-> IF stamps = {} THEN None
                                ELSE CHOOSE t \in stamps : \A u \in stamps : t >= u]

\* fusion.py fuse_reports
fuse_reports(reports) ==
    LET has_lora    == \E i \in 1..Len(reports) : reports[i].source = "lora"
        hazard_type == determine_consensus_hazard_type(reports)
        confidence  == calculate_weighted_confidence(reports)
    IN  [hazard_type |-> hazard_type,
         confidence  |-> confidence,
         severity    |-> calculate_weighted_severity(reports),
         status      |-> determine_status(confidence, hazard_type, has_lora),
         evidence    |-> create_evidence_json(reports)]


\* ------------------------------------------------- evidence JSON as text
\* The pipeline finds a group's event by substring search in the stored
\* JSON text.  A decimal needle can only match inside a maximal run of
\* digits, so the text is kept as its set of digit runs.
RECURSIVE Digits(_)
\* str(n) for a natural n, as a sequence of digits
Digits(n) == IF n < 10 THEN <<n>> ELSE Digits(n \div 10) \o <<n % 10>>

RECURSIVE StripZeros(_)
StripZeros(ds) ==
    IF Len(ds) > 1 /\ ds[Len(ds)] = 0
    THEN StripZeros(SubSeq(ds, 1, Len(ds) - 1)) ELSE ds

\* repr() of a float kept in ten-thousandths: "0.08" has the runs 0 and 08
FloatRuns(v) ==
    LET f == v % S
    IN  { Digits(v \div S),
          StripZeros(<<f \div 1000, (f \div 100) % 10, (f \div 10) % 10, f % 10>>) }

\* datetime.isoformat() of 2026-02-03T04:mm:06.234567+00:00
IsoRuns(ts) ==
    IF ts = None THEN {}
    ELSE { <<2, 0, 2, 6>>, <<0, 2>>, <<0, 3>>, <<0, 4>>,
           <<ts \div 10, ts % 10>>, <<0, 6>>, <<2, 3, 4, 5, 6, 7>>, <<0, 0>> }

\* json.dumps(evidence): the digit runs of the text (the descriptions and
\* source names of the input tables hold no digit)
JsonDigitRuns(ev) ==
    {Digits(ev.report_count)}
    \cup {Digits(c) : c \in ev.source_counts}
    \cup UNION {FloatRuns(ev.confidence_scores[i]) : i \in 1..Len(ev.confidence_scores)}
    \cup UNION {FloatRuns(ev.credibility_scores[i]) : i \in 1..Len(ev.credibility_scores)}
    \cup {Digits(ev.report_ids[i]) : i \in 1..Len(ev.report_ids)}
    \cup IsoRuns(ev.earliest) \cup IsoRuns(ev.latest)

ContainsRun(run, needle) ==
    \E i \in 1..(Len(run) - Len(needle) + 1) :
        SubSeq(run, i, i + Len(needle) - 1) = needle

\* a lookup that searches every blob for str(group_id), with or without the
\* key "report_ids"
EvidenceMatchesAnyBlob(ev, group_id) ==
    /\ group_id # None
    /\ \E run \in JsonDigitRuns(ev) : ContainsRun(run, Digits(group_id))

\* evidence_json.contains('"report_ids": [') and .contains(str(group_id)):
\* only a fused blob has the key; str(None) is "None", which no blob holds
EvidenceMatches(ev, group_id) ==
    /\ ev.fused
    /\ group_id # None
    /\ \E run \in JsonDigitRuns(ev) : ContainsRun(run, Digits(group_id))

\* ingest.py 218-222: .first() of the matching events, 0 when there is none
existing_event(events, group_id) ==
    LET hits == {i \in 1..Len(events) : EvidenceMatches(events[i].evidence, group_id)}
    IN  IF hits = {} THEN 0 ELSE CHOOSE i \in hits : \A j \in hits : i <= j

\* ---------------------------------------------------------------- store
\* a row of raw_reports as submit_report / lora_emergency insert it
NewReport(source, text, place, ts, has_path, has_media, verified) ==
    [source |-> source, text |-> text, place |-> place, ts |-> ts,
     has_path |-> has_path, has_media |-> has_media, verified |-> verified,
     processed |-> FALSE, nlp_type |-> "NULL", nlp_conf |-> None,
     credibility |-> None, group_id |-> None]

\* app.py 876-885: the evidence of the emergency fast path
EmergencyEvidence(report_id) ==
    [fused |-> FALSE, report_count |-> 0, source_counts |-> {},
     confidence_scores |-> << >>, credibility_scores |-> << >>,
     report_ids |-> <<report_id>>, earliest |-> None, latest |-> None]

\* x or 0.5 of ingest.py 201-202
OrHalf(x) == IF x = None \/ x = 0 THEN 5000 ELSE x

\* ingest.py 192-209: the dicts handed to the fusion engine
ReportsData(reports, ids) ==
    [k \in 1..Len(ids) |->
        LET r == reports[ids[k]]
        IN  [id |-> ids[k], source |-> r.source, text |-> r.text, ts |-> r.ts,
             nlp_type |-> r.nlp_type, nlp_conf |-> OrHalf(r.nlp_conf),
             credibility |-> OrHalf(r.credibility),
             has_media |-> r.has_media \/ r.has_path,
             media_verified |-> r.verified, severity_boost |-> 0]]

\* a query for the clusterer that leaves out the test on processed
get_reports_for_dedup_all(reports, exclude_id) ==
    LET ids == SetToSeq({i \in 1..Len(reports) : i # exclude_id})
    IN  [k \in 1..Len(ids) |->
            [id |-> ids[k], text |-> reports[ids[k]].text,
             place |-> reports[ids[k]].place, ts |-> reports[ids[k]].ts,
             group_id |-> reports[ids[k]].group_id]]

\* ingest.py _get_reports_for_dedup: processed reports other than exclude_id
get_reports_for_dedup(reports, exclude_id) ==
    LET ids == SetToSeq({i \in 1..Len(reports) : reports[i].processed /\ i # exclude_id})
    IN  [k \in 1..Len(ids) |->
            [id |-> ids[k], text |-> reports[ids[k]].text,
             place |-> reports[ids[k]].place, ts |-> reports[ids[k]].ts,
             group_id |-> reports[ids[k]].group_id]]

\* ingest.py 177-180: the ids of the processed reports of a group
group_members(reports, group_id) ==
    SetToSeq({i \in 1..Len(reports) :
                 reports[i].processed /\ reports[i].group_id = group_id})

\* ingest.py 211-256: the fuse of the dicts read, the lookup of the group's
\* event, and its update or insert
write_group_event(events, group_id, reports_data) ==
    LET fr == fuse_reports(reports_data)
        e  == existing_event(events, group_id)
        ev == [hazard_type |-> fr.hazard_type, confidence |-> fr.confidence,
               severity |-> fr.severity, status |-> fr.status,
               evidence |-> fr.evidence, fused_group |-> group_id]
    IN  IF e # 0 THEN [events EXCEPT ![e] = ev] ELSE Append(events, ev)

\* ingest.py _process_group_fusion: the events table after the call.
\* store_fails is a failure of the store inside the try block (rolled back).
\* Each event carries fused_group, the group_id of the call that last wrote
\* it (0 for an event of the emergency fast path): a history field.
process_group_fusion(reports, events, group_id, store_fails) ==
    LET ids == group_members(reports, group_id)
    IN  IF store_fails \/ ids = << >> THEN events
        ELSE CHOOSE events1 \in
               { write_group_event(events, group_id, reports_data)
                 : reports_data \in {ReportsData(reports, ids)} } : TRUE

FailPoints == {"none", "commit", "fusion"}

\* ingest.py 83-107: the row of the report as the run commits it, with the
\* results of the classifier and the scorer and the group the clusterer gave
commit_report(reports, report_id, group_id) ==
    LET r    == reports[report_id]
        nlp  == classify_text(r.text, r.source, r.has_media \/ r.has_path, r.verified)
        cred == calculate_credibility(r.source, r.text, r.place, r.ts, r.has_path)
    IN  [reports EXCEPT ![report_id] =
            [@ EXCEPT !.nlp_type = nlp.hazard_type,
                      !.nlp_conf = nlp.confidence,
                      !.credibility = cred,
                      !.group_id = group_id,
                      !.processed = TRUE]]

\* a run that takes every report for an unprocessed one
is_processed_never(row) == FALSE

\* ingest.py 37: the test that ends a run on a processed report at once
is_processed(row) == row.processed

\* ingest.py process_single_report: the store after the call, the value
\* returned (ok), the stage that raised (failed) and the components called.
\* fail is where the store raises during this run, if it does.
process_single_report(reports, events, report_id, is_emergency, fail) ==
    LET same(ok, failed, calls) ==
            [reports |-> reports, events |-> events,
             ok |-> ok, failed |-> failed, calls |-> calls]
    IN  IF report_id \notin 1..Len(reports) THEN same(FALSE, "none", {})
        ELSE IF is_processed(reports[report_id]) THEN same(TRUE, "none", {})
        ELSE
          LET r == reports[report_id]
              nlp == classify_text(r.text, r.source, r.has_media \/ r.has_path, r.verified)
              cred == calculate_credibility(r.source, r.text, r.place, r.ts, r.has_path)
          IN  \* 57-62 replace nlp_result by a dict; 83 reads an attribute of it
              IF is_emergency \/ r.source = "lora_sos"
              THEN same(FALSE, "classify", {"classify", "credibility"})
              ELSE
                LET stages == {"classify", "credibility", "cluster"}
                    \* 104-111: the report is committed, then its group is fused
                    stored(d) ==
                        CHOOSE out \in
                          { [reports |-> reports1,
                             events  |-> process_group_fusion(reports1, events,
                                            d.group_id, fail = "fusion"),
                             ok      |-> TRUE,
                             failed  |-> IF fail = "fusion" THEN "fusion" ELSE "none",
                             calls   |-> stages \cup {"fuse"}]
                            : reports1 \in
                                {commit_report(reports, report_id, d.group_id)} } : TRUE
                IN  CHOOSE out \in
                      { IF d.raised THEN same(FALSE, "cluster", stages)
                        ELSE IF fail = "commit" THEN same(FALSE, "commit", stages)
                        ELSE stored(d)
                        : d \in {find_duplicates(r,
                                    get_reports_for_dedup(reports, report_id))} } : TRUE

RECURSIVE SweepFold(_, _, _, _)
\* the loop of process_all_unprocessed_reports over the ids it queried
SweepFold(reports, events, ids, fail) ==
    IF ids = << >>
    THEN [reports |-> reports, events |-> events, failed |-> 0, calls |-> {}]
    ELSE LET after(one) ==
                 CHOOSE out \in
                   { [reports |-> rest.reports, events |-> rest.events,
                      failed  |-> rest.failed + (IF one.ok THEN 0 ELSE 1),
                      calls   |-> one.calls \cup rest.calls]
                     : rest \in {SweepFold(one.reports, one.events, Tail(ids), fail)} }
                   : TRUE
         IN  CHOOSE out \in
               { after(one)
                 : one \in {process_single_report(reports, events, Head(ids),
                                                  FALSE, fail)} } : TRUE


\* ------------------------------------------------------- fast path, hook
\* an emergency event that takes the credibility of the report for its
\* confidence
EmergencyEventAtCredibility(report_id) ==
    [hazard_type |-> "emergency", confidence |-> 9500,
     severity |-> 5, status |-> "emergency",
     evidence |-> EmergencyEvidence(report_id), fused_group |-> 0]

\* app.py 870-885: the row the fast path inserts into hazard_events
EmergencyEvent(report_id) ==
    [hazard_type |-> "emergency", confidence |-> 9900,
     severity |-> 5, status |-> "emergency",
     evidence |-> EmergencyEvidence(report_id), fused_group |-> 0]

\* app.py process_emergency_async on a report row that exists: the UPDATE of
\* the report, the INSERT of the event, then the broadcast (its frame records
\* whether the hazard id it names was stored when broadcast was called)
process_emergency_async(reports, events, report_id) ==
    LET reports1 == [reports EXCEPT ![report_id] =
                        [@ EXCEPT !.processed = TRUE, !.nlp_type = "emergency",
                                  !.nlp_conf = 9900, !.credibility = 9500]]
        events1  == Append(events, EmergencyEvent(report_id))
        hazard_id == Len(events1)
    IN  [reports |-> reports1, events |-> events1, calls |-> {},
         frame |-> [type |-> "emergency_alert", id |-> hazard_id,
                    flag |-> hazard_id \in 1..Len(events1)]]

Decisions == {"approved", "rejected", "validated"}

\* a validation that adds and subtracts without clamping
validate_hazard_unclamped(events, hazard_id, status) ==
    LET current_confidence == OrHalf(events[hazard_id].confidence)
    IN  IF status = "approved"
        THEN [events EXCEPT ![hazard_id].status = status,
                            ![hazard_id].confidence = current_confidence + 2000]
        ELSE IF status = "rejected"
        THEN [events EXCEPT ![hazard_id].status = status,
                            ![hazard_id].confidence = current_confidence - 3000]
        ELSE [events EXCEPT ![hazard_id].status = status]

\* app.py validate_hazard 1808-1840 on a hazard row that exists
validate_hazard(events, hazard_id, status) ==
    LET current_confidence == OrHalf(events[hazard_id].confidence)
    IN  IF status = "approved"
        THEN [events EXCEPT ![hazard_id].status = status,
                            ![hazard_id].confidence = Min2(current_confidence + 2000, S)]
        ELSE IF status = "rejected"
        THEN [events EXCEPT ![hazard_id].status = status,
                            ![hazard_id].confidence = Max2(current_confidence - 3000, 0)]
        ELSE [events EXCEPT ![hazard_id].status = status]

\* app.py 1797-1861: what validate_hazard answers when it does not succeed.
\* HTTPException(404) is raised inside the try block for a missing row; the
\* except Exception clause of that block catches it and raises
\* HTTPException(500) in its place.
validate_hazard_error(events, hazard_id) ==
    LET raised == IF hazard_id \in 1..Len(events) THEN "none" ELSE "http_404"
    IN  IF raised = "none" THEN "none" ELSE "http_500"

\* ------------------------------------------------------------ broadcaster
\* app.py 367: asyncio.Queue() has maxsize 0, which asyncio takes for "no
\* limit"
NewQueue == [maxsize |-> 0, items |-> << >>]

\* asyncio.Queue.full()
queue_full(q) == q.maxsize > 0 /\ Len(q.items) >= q.maxsize

\* asyncio.Queue.put: it appends when the queue is not full and waits when
\* it is; it raises in neither case
queue_put(q, message) ==
    IF queue_full(q)
    THEN [raised |-> FALSE, blocked |-> TRUE, queue |-> q]
    ELSE [raised |-> FALSE, blocked |-> FALSE,
          queue |-> [q EXCEPT !.items = Append(@, message)]]

\* a queue that hands out the newest item first
queue_get_newest(q) ==
    [item  |-> q.items[Len(q.items)],
     queue |-> [q EXCEPT !.items = SubSeq(@, 1, Len(@) - 1)]]

\* asyncio.Queue.get on a queue that holds an item: the oldest one
queue_get(q) ==
    [item |-> Head(q.items), queue |-> [q EXCEPT !.items = Tail(@)]]

\* a client of /api/events that has not connected
NoStream == [state |-> "none", registered |-> FALSE, queue |-> NewQueue,
             got |-> << >>, keepalives |-> 0]

\* the frames event_generator yields by itself; at = 0: not built by broadcast
ConnectedFrame == [type |-> "connected", id |-> 0, flag |-> TRUE, at |-> 0]

KeepaliveFrame == [type |-> "keepalive", id |-> 0, flag |-> TRUE, at |-> 0]

\* a generator that registers its queue and waits on it without a greeting
open_stream_silent ==
    [state |-> "open", registered |-> TRUE, queue |-> NewQueue,
     got |-> << >>, keepalives |-> 0]

\* app.py 366-377: event_generator up to its first yield.  The queue is
\* created and added to the connections, and the connected frame is yielded,
\* with no await in between.
open_stream ==
    [state |-> "open", registered |-> TRUE, queue |-> NewQueue,
     got |-> <<ConnectedFrame>>, keepalives |-> 0]

\* app.py 61-84 EventBroadcaster.broadcast: nothing happens without a
\* connection; else the message is built (its timestamp is the clock) and put
\* on every queue in turn, and a queue whose put raised is discarded
broadcast(subs, clock, frame) ==
    LET connections == {s \in DOMAIN subs : subs[s].registered}
    IN  IF connections = {} THEN [subs |-> subs, clock |-> clock]
        ELSE
          LET message == [type |-> frame.type, id |-> frame.id,
                          flag |-> frame.flag, at |-> clock + 1]
              put(s) == queue_put(subs[s].queue, message)
              disconnected == {s \in connections : put(s).raised}
          IN  [subs |-> [s \in DOMAIN subs |->
                            IF s \in connections
                            THEN [subs[s] EXCEPT !.queue = put(s).queue,
                                                 !.registered = s \notin disconnected]
                            ELSE subs[s]],
               clock |-> clock + 1]

\* no direct call of the fusion engine has been made
NoProbe ==
    [op |-> "none", confidence |-> 0, hazard_type |-> "unknown",
     sources |-> {}, status |-> "review", alert |-> FALSE, group |-> << >>]

\* a background task slot that is not inside a pipeline run
Idle == [pc |-> "idle", report |-> 0, existing |-> << >>, fresh |-> FALSE,
         group |-> 0, ids |-> << >>]

\* ---------------------------------------------------------------- state
VARIABLES
    reports,   \* raw_reports: row id -> row
    events,    \* hazard_events: row id -> row
    tasks,     \* per report: the state of its background task
    frames,    \* the frames handed to broadcaster.broadcast so far
    nval,      \* number of validate_hazard calls so far
    last,      \* the last handler run: its name, argument, result, calls
    probe,     \* the last direct call of the fusion engine: inputs and result
    clock,     \* number of messages the broadcaster has built (their timestamp)
    subs,      \* per client of /api/events: its queue and the frames it got
    running    \* per background task slot: the pipeline run it is inside

vars == <<reports, events, tasks, frames, nval, last, probe, clock, subs, running>>

Frame(type, id, flag) == [type |-> type, id |-> id, flag |-> flag]

Call(op, arg, ok, failed, calls) ==
    [op |-> op, arg |-> arg, ok |-> ok, failed |-> failed, calls |-> calls]

\* the reports submitted through submit_report in this model
Inputs ==
    { [source |-> "citizen",  text |-> "odd",   place |-> "marina",    ts |-> 0],
      [source |-> "citizen",  text |-> "odd",   place |-> "marina",    ts |-> 20],
      [source |-> "citizen",  text |-> "flood", place |-> "cuddalore", ts |-> 0],
      [source |-> "incois",   text |-> "flood", place |-> "marina",    ts |-> 0],
      [source |-> "lora",     text |-> "odd",   place |-> "cuddalore", ts |-> 20] }

Init ==
    /\ reports = << >>
    /\ events = << >>
    /\ tasks = << >>
    /\ frames = {}
    /\ nval = 0
    /\ last = Call("init", 0, TRUE, "none", {})
    /\ probe = NoProbe
    /\ clock = 0
    /\ subs = [s \in 1..MaxSubscribers |-> NoStream]
    /\ running = [w \in 1..MaxWorkers |-> Idle]

\* a call of broadcaster.broadcast by a handler
Broadcast(frame) ==
    /\ frames' = frames \cup {frame}
    /\ \E sent \in {broadcast(subs, clock, frame)} :
           /\ subs' = sent.subs
           /\ clock' = sent.clock

\* app.py submit_report: insert the row, broadcast new_report, queue the task
SubmitReportFrom(inputs, bound) ==
    \E inp \in inputs :
        /\ Len(reports) < bound
        /\ reports' = Append(reports,
               NewReport(inp.source, inp.text, inp.place, inp.ts, FALSE, FALSE, FALSE))
        /\ tasks' = Append(tasks, "queued")
        /\ Broadcast(Frame("new_report", Len(reports) + 1, TRUE))
        /\ last' = Call("submit_report", Len(reports) + 1, TRUE, "none", {})
        /\ UNCHANGED <<events, nval, probe, running>>

SubmitReport == SubmitReportFrom(Inputs, MaxReports)

\* app.py lora_emergency: insert the lora_sos row, queue the fast path
LoraEmergencyUpTo(bound) ==
    \E place \in {"marina"} :
        /\ Len(reports) < bound
        /\ reports' = Append(reports,
               NewReport("lora_sos", "sos", place, 0, TRUE, FALSE, FALSE))
        /\ tasks' = Append(tasks, "equeued")
        /\ last' = Call("lora_emergency", Len(reports) + 1, TRUE, "none", {})
        /\ UNCHANGED <<events, frames, nval, probe, clock, subs, running>>

LoraEmergency == LoraEmergencyUpTo(MaxReports)

\* background tasks start in the order in which they were queued
Oldest(r) == \A q \in 1..(r - 1) : tasks[q] = "done"

\* app.py process_emergency_async, the queued fast path
ProcessEmergencyAsync ==
    \E r \in 1..Len(reports) :
        /\ tasks[r] = "equeued"
        /\ Oldest(r)
        /\ \E out \in {process_emergency_async(reports, events, r)} :
               /\ reports' = out.reports
               /\ events' = out.events
               /\ Broadcast(out.frame)
               /\ last' = Call("process_emergency_async", r, TRUE, "none", out.calls)
        /\ tasks' = [tasks EXCEPT ![r] = "done"]
        /\ UNCHANGED <<nval, probe, running>>

\* app.py process_report_async, the queued pipeline run of a submitted report
ProcessReportAsyncWith(fails) ==
    \E r \in 1..Len(reports), fail \in fails :
        /\ tasks[r] = "queued"
        /\ Oldest(r)
        /\ \E out \in {process_single_report(reports, events, r, FALSE, fail)} :
               /\ reports' = out.reports
               /\ events' = out.events
               /\ Broadcast(Frame("report_processed", r, out.ok))
               /\ last' = Call("process_report_async", r, out.ok, out.failed, out.calls)
        /\ tasks' = [tasks EXCEPT ![r] = "done"]
        /\ UNCHANGED <<nval, probe, running>>

ProcessReportAsync == ProcessReportAsyncWith(FailPoints)

\* ingest.py process_single_report called on any report id
ProcessSingleReport ==
    \E r \in 1..(Len(reports) + 1), is_emergency \in BOOLEAN, fail \in FailPoints :
        /\ \E out \in {process_single_report(reports, events, r, is_emergency, fail)} :
               /\ reports' = out.reports
               /\ events' = out.events
               /\ last' = Call(IF is_emergency THEN "process_single_report_emergency"
                               ELSE "process_single_report", r, out.ok,
                               out.failed, out.calls)
        /\ UNCHANGED <<tasks, frames, nval, probe, clock, subs, running>>

\* ingest.py process_all_unprocessed_reports, one sweep
SweepWith(fails) ==
    \E fail \in fails :
        \E ids \in {SetToSeq({i \in 1..Len(reports) : ~reports[i].processed})} :
        \E out \in {SweepFold(reports, events, ids, fail)} :
            /\ reports' = out.reports
            /\ events' = out.events
            /\ last' = Call("process_all_unprocessed_reports", Len(ids),
                            out.failed = 0,
                            IF out.failed = 0 THEN "none" ELSE "run", out.calls)
            /\ UNCHANGED <<tasks, frames, nval, probe, clock, subs, running>>

Sweep == SweepWith(FailPoints)

\* app.py validate_hazard
ValidateHazardUpTo(bound) ==
    \E h \in 1..(Len(events) + 1), status \in Decisions :
        /\ nval < bound
        /\ nval' = nval + 1
        /\ IF h \in 1..Len(events)
           THEN /\ events' = validate_hazard(events, h, status)
                /\ Broadcast(Frame("hazard_validated", h,
                                    status \in {"approved", "rejected"}))
                /\ last' = Call("validate_hazard", h, TRUE, "none", {})
           ELSE /\ UNCHANGED <<events, frames, clock, subs>>
                /\ last' = Call("validate_hazard", h, FALSE,
                                validate_hazard_error(events, h), {})
        /\ UNCHANGED <<reports, tasks, probe, running>>

ValidateHazard == ValidateHazardUpTo(MaxValidations)

Next ==
    \/ SubmitReport
    \/ LoraEmergency
    \/ ProcessEmergencyAsync
    \/ ProcessReportAsync
    \/ ProcessSingleReport
    \/ Sweep
    \/ ValidateHazard

Spec == Init /\ [][Next]_vars

\* ---- a batch of similar citizen reports, the store failing at a commit
BatchInputs ==
    { [source |-> "citizen", text |-> "odd", place |-> "marina", ts |-> 0],
      [source |-> "citizen", text |-> "odd", place |-> "marina", ts |-> 20] }

SubmitBatch == SubmitReportFrom(BatchInputs, MaxBatch)

ProcessBatchAsync == ProcessReportAsyncWith({"none", "commit"})

NextBatch == SubmitBatch \/ ProcessBatchAsync

SpecBatch == Init /\ [][NextBatch]_vars

\* ---- one report and the administrator
AdminInputs ==
    { [source |-> "citizen", text |-> "odd",   place |-> "marina", ts |-> 0],
      [source |-> "incois",  text |-> "flood", place |-> "marina", ts |-> 0] }

SubmitAdmin == SubmitReportFrom(AdminInputs, MaxReports)

ProcessAdminAsync == ProcessReportAsyncWith({"none"})

ValidateAdmin == ValidateHazardUpTo(MaxAdmin)

NextAdmin == SubmitAdmin \/ ProcessAdminAsync \/ ValidateAdmin

SpecAdmin == Init /\ [][NextAdmin]_vars

\* ---- three reports from the same place, the store never failing
ClusterInputs ==
    { [source |-> "citizen", text |-> "odd",   place |-> "marina", ts |-> 0],
      [source |-> "citizen", text |-> "odd",   place |-> "marina", ts |-> 20],
      [source |-> "incois",  text |-> "flood", place |-> "marina", ts |-> 0] }

SubmitCluster == SubmitReportFrom(ClusterInputs, MaxCluster)

ProcessClusterAsync == ProcessReportAsyncWith({"none"})

NextCluster == SubmitCluster \/ ProcessClusterAsync

SpecCluster == Init /\ [][NextCluster]_vars

\* ---- the fusion engine called directly
FusionKinds ==
    {"flood", "tsunami", "tides", "earthquake", "landslide", "unknown", "emergency"}

\* confidences on both sides of every threshold of the status table
ProbeConfidences == {0, 2999, 3000, 8499, 8500, 8999, 9000, 9500, 9800, S}

ProbeSources == {"citizen", "incois", "lora"}

\* a report dict as ingest.py 192-209 builds it
ProbeReport(id, source, nlp_type, nlp_conf, credibility) ==
    [id |-> id, source |-> source, text |-> "odd", ts |-> 0,
     nlp_type |-> nlp_type, nlp_conf |-> nlp_conf, credibility |-> credibility,
     has_media |-> FALSE, media_verified |-> FALSE, severity_boost |-> 0]

ProbeReports(id) ==
    { ProbeReport(id, source, nlp_type, nlp_conf, credibility) :
        source \in ProbeSources, nlp_type \in {"flood", "tsunami", "emergency"},
        nlp_conf \in {5000, 9900}, credibility \in {5000, 9500} }

\* the groups handed to fuse_reports: one report, or two
ProbeGroups ==
    {<<a>> : a \in ProbeReports(1)}
    \cup (IF MaxGroup >= 2
          THEN {<<a, b>> : a \in ProbeReports(1), b \in ProbeReports(2)} ELSE {})

\* fusion_engine.determine_status and should_create_alert on a snapshot
DetermineStatus ==
    \E confidence \in ProbeConfidences, hazard_type \in FusionKinds,
       sources \in (SUBSET ProbeSources) \ {{}} :
        /\ \E status \in {determine_status(confidence, hazard_type, "lora" \in sources)} :
               probe' = [op |-> "determine_status", confidence |-> confidence,
                         hazard_type |-> hazard_type, sources |-> sources,
                         status |-> status,
                         alert |-> should_create_alert(
                                      [confidence |-> confidence, status |-> status]),
                         group |-> << >>]
        /\ UNCHANGED <<reports, events, tasks, frames, nval, last, clock, subs, running>>

\* fusion_engine.fuse_reports and should_create_alert on its result
FuseReports ==
    \E group \in ProbeGroups :
        /\ \E fr \in {fuse_reports(group)} :
               probe' = [op |-> "fuse_reports", confidence |-> fr.confidence,
                         hazard_type |-> fr.hazard_type,
                         sources |-> {group[i].source : i \in 1..Len(group)},
                         status |-> fr.status,
                         alert |-> should_create_alert(fr),
                         group |-> group]
        /\ UNCHANGED <<reports, events, tasks, frames, nval, last, clock, subs, running>>

NextFusion == DetermineStatus \/ FuseReports

SpecFusion == Init /\ [][NextFusion]_vars

\* ---- the emergency fast path among pipeline runs
FastInputs ==
    { [source |-> "citizen", text |-> "odd", place |-> "marina", ts |-> 0],
      [source |-> "citizen", text |-> "odd", place |-> "marina", ts |-> 20] }

SubmitFast == SubmitReportFrom(FastInputs, MaxFast)

LoraFast == LoraEmergencyUpTo(MaxFast)

ValidateFast == ValidateHazardUpTo(MaxValidations)

NextFast ==
    SubmitFast \/ LoraFast \/ ProcessEmergencyAsync \/ ProcessSingleReport \/ ValidateFast

SpecFast == Init /\ [][NextFast]_vars

\* ---- the classifier called directly
\* the source strings of the other services, and the key nlp.py has for
\* social media
ClassifySources == {"citizen", "social", "social_media", "incois", "lora"}

\* nlp_processor.classify_text(text, source, has_media, media_verified)
ClassifyText ==
    \E text \in ClassifyTexts, source \in ClassifySources,
       has_media \in BOOLEAN, media_verified \in BOOLEAN :
        /\ \E res \in {classify_text(text, source, has_media, media_verified)} :
               probe' = [op |-> "classify_text", text |-> text, source |-> source,
                         has_media |-> has_media, media_verified |-> media_verified,
                         hazard_type |-> res.hazard_type,
                         confidence |-> res.confidence,
                         severity_boost |-> res.severity_boost]
        /\ UNCHANGED <<reports, events, tasks, frames, nval, last, clock, subs, running>>

NextClassify == ClassifyText

SpecClassify == Init /\ [][NextClassify]_vars

\* ---- background tasks, a pipeline run taken in two steps
\* a scheduler that starts a task while another is inside its run
LoopPreempts(w) == TRUE

\* The event loop starts a background task only when no other task is inside
\* its pipeline run: process_report_async calls process_single_report
\* without await (app.py 584) and ingest.py has no await.
LoopFree(w) == \A v \in DOMAIN running : v # w => running[v].pc = "idle"

SubmitWorkers == SubmitReportFrom(ClusterInputs, MaxCluster)

\* process_report_async from its start to the read of the processed reports
\* for the clusterer (app.py 577-584, ingest.py 22-88)
StartRun ==
    \E w \in DOMAIN running, r \in 1..Len(reports) :
        /\ tasks[r] = "queued"
        /\ ~is_processed(reports[r])
        /\ running[w].pc = "idle"
        /\ LoopFree(w)
        /\ running' = [running EXCEPT ![w] =
              [pc |-> "clustering", report |-> r,
               existing |-> get_reports_for_dedup(reports, r),
               fresh |-> FALSE, group |-> 0, ids |-> << >>]]
        /\ tasks' = [tasks EXCEPT ![r] = "running"]
        /\ UNCHANGED <<reports, events, frames, nval, last, probe, clock, subs>>

\* the run from the clusterer's decision to the read of the group's reports
\* (ingest.py 90-180): the group is found from the reports read, the report
\* is committed with it, and the fuse has read the processed reports of the
\* group and has written nothing
BeginRun ==
    \E w \in DOMAIN running :
        /\ running[w].pc = "clustering"
        /\ \E d \in {find_duplicates(reports[running[w].report], running[w].existing)} :
           \E reports1 \in {commit_report(reports, running[w].report, d.group_id)} :
               /\ ~d.raised
               /\ reports' = reports1
               /\ running' = [running EXCEPT ![w] =
                     [@ EXCEPT !.pc = "fusing",
                               !.fresh = ~d.is_duplicate,
                               !.group = d.group_id,
                               !.ids = group_members(reports1, d.group_id)]]
        /\ UNCHANGED <<events, tasks, frames, nval, last, probe, clock, subs>>

\* the rest of the run (ingest.py 192-261, app.py 586-596): the event is
\* computed from the reports read and stored, then report_processed is
\* broadcast
EndRun ==
    \E w \in DOMAIN running :
        /\ running[w].pc = "fusing"
        /\ \E reports_data \in {ReportsData(reports, running[w].ids)} :
               events' = write_group_event(events, running[w].group, reports_data)
        /\ Broadcast(Frame("report_processed", running[w].report, TRUE))
        /\ last' = Call("process_report_async", running[w].report, TRUE, "none",
                        {"classify", "credibility", "cluster", "fuse"})
        /\ tasks' = [tasks EXCEPT ![running[w].report] = "done"]
        /\ running' = [running EXCEPT ![w] = Idle]
        /\ UNCHANGED <<reports, nval, probe>>

NextWorkers == SubmitWorkers \/ StartRun \/ BeginRun \/ EndRun

SpecWorkers == Init /\ [][NextWorkers]_vars

\* ---- clients of /api/events while reports are submitted and processed
StreamInputs ==
    { [source |-> "citizen", text |-> "odd", place |-> "marina", ts |-> 0] }

SubmitStream == SubmitReportFrom(StreamInputs, MaxReports)

ProcessStreamAsync == ProcessReportAsyncWith({"none"})

\* app.py 363-377: a client opens /api/events and the generator runs to its
\* first yield
StreamEvents ==
    \E s \in DOMAIN subs :
        /\ subs[s].state = "none"
        /\ subs' = [subs EXCEPT ![s] = open_stream]
        /\ UNCHANGED <<reports, events, tasks, frames, nval, last, probe, clock, running>>

\* app.py 380-383: queue.get returns a message within the timeout and the
\* generator yields it
NextMessage ==
    \E s \in DOMAIN subs :
        /\ subs[s].state = "open"
        /\ subs[s].queue.items # << >>
        /\ \E out \in {queue_get(subs[s].queue)} :
               subs' = [subs EXCEPT ![s].queue = out.queue,
                                    ![s].got = Append(@, out.item)]
        /\ UNCHANGED <<reports, events, tasks, frames, nval, last, probe, clock, running>>

\* app.py 384-391: the queue stayed empty for 30 s; the generator yields a
\* keepalive and goes on waiting
Keepalive ==
    \E s \in DOMAIN subs :
        /\ subs[s].state = "open"
        /\ subs[s].queue.items = << >>
        /\ subs[s].keepalives < MaxKeepalives
        /\ subs' = [subs EXCEPT ![s].got = Append(@, KeepaliveFrame),
                                ![s].keepalives = @ + 1]
        /\ UNCHANGED <<reports, events, tasks, frames, nval, last, probe, clock, running>>

\* app.py 392-395: the client goes away; the generator is closed and its
\* finally block removes the queue from the connections
Disconnect ==
    \E s \in DOMAIN subs :
        /\ subs[s].state = "open"
        /\ subs' = [subs EXCEPT ![s].state = "closed", ![s].registered = FALSE]
        /\ UNCHANGED <<reports, events, tasks, frames, nval, last, probe, clock, running>>

NextStream ==
    \/ SubmitStream
    \/ ProcessStreamAsync
    \/ StreamEvents
    \/ NextMessage
    \/ Keepalive
    \/ Disconnect

SpecStream == Init /\ [][NextStream]_vars

\* ---- the store never fails; queued tasks and sweeps keep running
ProcessLiveAsync == ProcessReportAsyncWith({"none"})

SweepLive == SweepWith({"none"})

NextLive ==
    \/ SubmitReport
    \/ LoraEmergency
    \/ ProcessEmergencyAsync
    \/ ProcessLiveAsync
    \/ SweepLive

\* ENABLED <<ProcessLiveAsync>>_vars: a queued run is next in line
TaskWaiting == \E r \in 1..Len(reports) : tasks[r] = "queued" /\ Oldest(r)

\* ENABLED <<SweepLive>>_vars: a sweep now would change the state
SweepPending ==
    \E ids \in {SetToSeq({i \in 1..Len(reports) : ~reports[i].processed})} :
    \E out \in {SweepFold(reports, events, ids, "none")} :
        \/ out.reports # reports
        \/ out.events # events
        \/ last # Call("process_all_unprocessed_reports", Len(ids), out.failed = 0,
                       IF out.failed = 0 THEN "none" ELSE "run", out.calls)

\* Weak fairness of the fast path, of the queued runs and of the sweeps.  The
\* last two are WF_vars(ProcessLiveAsync) and WF_vars(SweepLive) written out,
\* with the enabling condition as the state predicate above.
SpecLive ==
    /\ Init
    /\ [][NextLive]_vars
    /\ WF_vars(ProcessEmergencyAsync)
    /\ ([]<>(~TaskWaiting) \/ []<><<ProcessLiveAsync>>_vars)
    /\ ([]<>(~SweepPending) \/ []<><<SweepLive>>_vars)

TypeOK ==
    /\ Len(tasks) = Len(reports)
    /\ nval \in 0..Max2(MaxValidations, MaxAdmin)

\* ---------------------------------------------------------------- claims
Ids == 1..Len(reports)

\* the handlers that run the pipeline on one report
PipelineOps ==
    {"process_single_report", "process_single_report_emergency", "process_report_async"}

\* the step runs the pipeline on report r, which was unprocessed before it
RunsOnUnprocessed(r) ==
    /\ last'.op \in PipelineOps
    /\ last' # last
    /\ last'.arg = r
    /\ r \in Ids
    /\ ~reports[r].processed

\* C1: after any sequence of pipeline runs the events table holds at most one
\* event per group_id: no two events were written by fuses of the same group.
C1_OneEventPerGroup ==
    \A i \in 1..Len(events), j \in 1..Len(events) :
        (i # j /\ events[i].fused_group >= 1)
            => events[i].fused_group # events[j].fused_group

\* C2: every report with processed = true has nlp_kind, nlp_conf, credibility
\* and group_id all non-null, whichever path processed it.
C2_ProcessedFieldsSet ==
    \A r \in Ids :
        reports[r].processed =>
            /\ reports[r].nlp_type # "NULL"
            /\ reports[r].nlp_conf # None
            /\ reports[r].credibility # None
            /\ reports[r].group_id # None

C4_RerunIsNoOp ==
    [][(/\ last'.op \in {"process_single_report", "process_single_report_emergency"}
        /\ last' # last
        /\ last'.arg \in Ids
        /\ reports[last'.arg].processed)
          => (last'.ok /\ reports' = reports /\ events' = events)]_vars

\* process_single_report has just returned success on a processed report
\* without calling any stage, while another report was still unprocessed
C4_Witness ==
    /\ last.op = "process_single_report"
    /\ last.arg \in Ids
    /\ last.ok
    /\ last.calls = {}
    /\ reports[last.arg].processed
    /\ reports[last.arg].group_id # None
    /\ \E q \in Ids : ~reports[q].processed

\* C5: if any stage of a pipeline run fails, the fuse and upsert included,
\* the run reports failure and the report stays unprocessed with no derived
\* field stored.
C5_FailedRunLeavesUnprocessed ==
    [][\A r \in 1..MaxReports :
          (RunsOnUnprocessed(r) /\ last'.failed # "none")
              => /\ ~last'.ok
                 /\ reports'[r] = reports[r]]_vars

\* C6: once the administrator has set an event to approved or rejected, no
\* pipeline fuse changes that status.
C6_ValidatedStatusPinned ==
    [][\A h \in 1..Len(events) :
          (events[h].status \in {"approved", "rejected"} /\ last'.op # "validate_hazard")
              => events'[h].status = events[h].status]_vars

\* C7: validate_hazard with approved sets the confidence c to min(1, c + 0.20),
\* with rejected to max(0, c - 0.30), for every c in [0, 1], c = 0 included;
\* any other decision leaves the confidence unchanged.
C7_ValidationAdjustsConfidence ==
    [][\A h \in 1..Len(events) :
          (last'.op = "validate_hazard" /\ last'.arg = h /\ nval' = nval + 1)
              => LET c == events[h].confidence
                     d == events'[h].status
                 IN  events'[h].confidence =
                        IF d = "approved" THEN Min2(S, c + 2000)
                        ELSE IF d = "rejected" THEN Max2(0, c - 3000)
                        ELSE c]_vars

\* C8: the fast path of an emergency-beacon submission stores an event with
\* confidence 0.99, severity 5 and status emergency, calls neither the
\* classifier nor the clusterer, and hands emergency_alert to the broadcaster
\* for a hazard id that is stored by then.
C8_EmergencyFastPath ==
    [][\A r \in 1..MaxReports :
          (r \in Ids /\ tasks[r] = "equeued" /\ tasks'[r] = "done")
              => /\ Len(events') = Len(events) + 1
                 /\ \A h \in 1..Len(events) : events'[h] = events[h]
                 /\ events'[Len(events')].confidence = 9900
                 /\ events'[Len(events')].severity = 5
                 /\ events'[Len(events')].status = "emergency"
                 /\ events'[Len(events')].evidence.report_ids = <<r>>
                 /\ last'.calls \cap {"classify", "cluster"} = {}
                 /\ Frame("emergency_alert", Len(events'), TRUE) \in frames']_vars

\* the fast path has just stored the event of a beacon submitted while a
\* pipeline event was already in the store
C8_Witness ==
    /\ last.op = "process_emergency_async"
    /\ Len(events) >= 2
    /\ events[Len(events)].status = "emergency"
    /\ events[Len(events)].evidence.report_ids = <<last.arg>>
    /\ Frame("emergency_alert", Len(events), TRUE) \in frames

\* C9: process_single_report on an unprocessed report whose source is
\* lora_sos, or called with is_emergency true, succeeds when the store does
\* not fail, and stores nlp_kind = emergency, nlp_conf = 0.99, processed = true.
C9_EmergencyOverrideApplied ==
    [][\A r \in 1..MaxReports :
          (/\ RunsOnUnprocessed(r)
           /\ reports[r].source = "lora_sos" \/ last'.op = "process_single_report_emergency"
           /\ last'.failed \notin {"commit", "fusion", "cluster"})
              => /\ last'.ok
                 /\ reports'[r].processed
                 /\ reports'[r].nlp_type = "emergency"
                 /\ reports'[r].nlp_conf = 9900]_vars

\* C10: when the store never fails and queued runs and sweeps keep running,
\* every report stored by submit_report is eventually processed, whatever
\* other reports are in the store.
C10_SubmittedEventuallyProcessed ==
    \A r \in 1..MaxReports :
        (r \in Ids /\ reports[r].source # "lora_sos") ~> (r \in Ids /\ reports[r].processed)


\* the group ids of the processed reports other than r that are integers
GroupIdsBut(r) ==
    {reports[q].group_id : q \in {i \in Ids : i # r /\ reports[i].processed}} \ {None}

\* C11: a pipeline run that reaches the clusterer and is not stopped by the
\* store returns from find_duplicates with a group_id that is a defined
\* integer: the group_id of a highest-scoring processed report among those
\* whose combined similarity with the new report is at least 0.6 when there
\* is one, 1 + the largest existing group id otherwise, 1 when no processed
\* report exists.
C11_FindGroupRule ==
    [][\A r \in 1..MaxReports :
          (/\ RunsOnUnprocessed(r)
           /\ "cluster" \in last'.calls
           /\ last'.failed # "commit")
              => LET others  == {q \in Ids : q # r /\ reports[q].processed}
                     sim(q)  == combined_similarity(reports[r], reports[q])
                     matched == {q \in others : sim(q) >= CombinedThreshold}
                     g       == reports'[r].group_id
                 IN  /\ last'.failed # "cluster"
                     /\ g \in Nat \ {0}
                     /\ IF matched # {}
                        THEN \E b \in matched :
                                /\ \A q \in matched : sim(q) <= sim(b)
                                /\ g = reports[b].group_id
                        ELSE IF others = {} THEN g = 1
                        ELSE /\ GroupIdsBut(r) # {}
                             /\ \A x \in GroupIdsBut(r) : x < g
                             /\ g - 1 \in GroupIdsBut(r)]_vars


\* C12: after any sequence of pipeline runs, any two processed reports whose
\* combined similarity is at least 0.6 are in the same group.
C12_SimilarReportsShareGroup ==
    \A p \in Ids, q \in Ids :
        (/\ reports[p].processed
         /\ reports[q].processed
         /\ combined_similarity(reports[p], reports[q]) >= CombinedThreshold)
            => reports[p].group_id = reports[q].group_id

\* C12 as the clusterer decides it: a pipeline run puts the report into the
\* group of a highest-scoring report among the processed reports whose
\* combined similarity with it is at least 0.6, and moves no other report:
\* groups are not merged, so a report can stay outside the group of a second
\* report that it matches.
C12_JoinsBestMatchOnly ==
    [][\A r \in 1..MaxCluster :
          (RunsOnUnprocessed(r) /\ last'.ok)
              => LET others  == {q \in Ids : q # r /\ reports[q].processed}
                     sim(q)  == combined_similarity(reports[r], reports[q])
                     matched == {q \in others : sim(q) >= CombinedThreshold}
                 IN  /\ matched # {} =>
                            \E b \in matched :
                                /\ \A q \in matched : sim(q) <= sim(b)
                                /\ reports'[r].group_id = reports[b].group_id
                     /\ \A q \in others : reports'[q].group_id = reports[q].group_id]_vars

\* a run has just put a report into the group of its best match while
\* another processed report that it matches is in a different group
C12_Witness ==
    /\ last.op = "process_report_async"
    /\ last.ok
    /\ last.arg \in Ids
    /\ \E b \in Ids, q \in Ids :
          /\ b # last.arg /\ q # last.arg
          /\ reports[b].processed /\ reports[q].processed
          /\ combined_similarity(reports[last.arg], reports[q]) >= CombinedThreshold
          /\ combined_similarity(reports[last.arg], reports[b])
                > combined_similarity(reports[last.arg], reports[q])
          /\ reports[last.arg].group_id = reports[b].group_id
          /\ reports[last.arg].group_id # reports[q].group_id


\* the condition under which the status table yields emergency
EmergencyRow(p) ==
    \/ "lora" \in p.sources
    \/ p.hazard_type = "emergency"
    \/ p.confidence >= 9000 /\ p.hazard_type \in {"tsunami", "earthquake"}

\* C13: the status of a fuse is the first matching row of the table, for every
\* confidence, consensus kind and source set: emergency if a report of the
\* group has source lora or the kind is emergency, else emergency if the
\* confidence is at least 0.90 and the kind is tsunami or earthquake, else
\* confirmed from 0.85, else pending from 0.30, else review.
C13_StatusTable ==
    probe.op # "none" =>
        /\ probe.status = "emergency" <=> EmergencyRow(probe)
        /\ probe.status = "confirmed" <=> (~EmergencyRow(probe) /\ probe.confidence >= 8500)
        /\ probe.status = "pending"
              <=> (/\ ~EmergencyRow(probe)
                   /\ probe.confidence >= 3000
                   /\ probe.confidence < 8500)
        /\ probe.status = "review" <=> (~EmergencyRow(probe) /\ probe.confidence < 3000)

\* the table has just put a flood at confidence 0.85 with no lora report
\* into the confirmed row
C13_Witness ==
    /\ probe.op = "determine_status"
    /\ probe.confidence = 8500
    /\ probe.hazard_type = "flood"
    /\ "lora" \notin probe.sources
    /\ probe.status = "confirmed"

\* C14: should_create_alert is true exactly when the confidence is at least
\* 0.85 or the status is emergency; so every result that a fuse gives status
\* confirmed or emergency raises an alert and none with status pending or
\* review does.
C14_AlertRule ==
    probe.op # "none" =>
        /\ probe.alert <=> (probe.confidence >= 8500 \/ probe.status = "emergency")
        /\ probe.status \in {"confirmed", "emergency"} => probe.alert
        /\ probe.status \in {"pending", "review"} => ~probe.alert

\* fuse_reports has just returned a confirmed result, which raises an alert
C14_Witness ==
    /\ probe.op = "fuse_reports"
    /\ probe.status = "confirmed"
    /\ probe.alert


\* C15: in every reachable state, after any mix of pipeline fuses, emergency
\* fast-path creations and administrator validations, every hazard event has
\* a confidence between 0 and 1 and a severity among 1, 2, 3, 4, 5.
C15_EventRanges ==
    \A h \in 1..Len(events) :
        /\ events[h].confidence >= 0
        /\ events[h].confidence <= S
        /\ events[h].severity \in 1..5

\* the store holds an event written by a fuse and an event of the fast path,
\* and the administrator has just approved the latter, whose confidence
\* 0.99 + 0.20 was cut to 1
C15_Witness ==
    /\ last.op = "validate_hazard"
    /\ last.ok
    /\ \E i \in 1..Len(events), j \in 1..Len(events) :
          /\ events[i].fused_group >= 1
          /\ events[j].fused_group = 0
          /\ last.arg = j
          /\ events[j].status = "approved"
          /\ events[j].confidence = S


C17_StatusChangeBroadcast ==
    [][\A h \in 1..Len(events) :
          (/\ last'.op = "process_report_async"
           /\ last' # last
           /\ events'[h].status # events[h].status)
              => \E f \in frames' \ frames :
                    /\ f.type \in {"hazard_updated", "emergency_alert"}
                    /\ f.id = h]_vars


\* the message was built by broadcast
Built(m) == m.at > 0

\* the broadcast messages a client has been handed, then those still queued
Handed(s) == SelectSeq(subs[s].got, Built) \o subs[s].queue.items

\* C18: each subscriber receives the frames broadcast while it is subscribed
\* in the order in which broadcast was called: of two frames that it
\* receives, the one emitted first is received first, and none in between
\* is skipped.
C18_FramesInEmissionOrder ==
    \A s \in DOMAIN subs :
        \A i \in 1..(Len(Handed(s)) - 1) :
            Handed(s)[i + 1].at = Handed(s)[i].at + 1

\* a client has received two broadcast frames that had been waiting in its
\* queue together
C18_Witness ==
    \E s \in DOMAIN subs :
        /\ Len(SelectSeq(subs[s].got, Built)) >= 2
        /\ subs[s].registered
        /\ \E t \in DOMAIN subs : t # s /\ Len(subs[t].queue.items) >= 2

\* C19: each subscriber's queue is bounded: it has a capacity, and never
\* holds more frames than that (a subscriber whose queue is full at a
\* broadcast is dropped instead).
C19_QueueBounded ==
    \A s \in DOMAIN subs :
        subs[s].registered =>
            /\ subs[s].queue.maxsize > 0
            /\ Len(subs[s].queue.items) <= subs[s].queue.maxsize

\* C20: the first frame a subscriber receives is connected, before any
\* broadcast frame; and a subscriber whose queue stays empty for the timeout
\* receives a keepalive frame and remains subscribed.
C20_ConnectedFirstThenKeepalive ==
    [][\A s \in DOMAIN subs :
          /\ subs'[s].got # << >> => subs'[s].got[1] = ConnectedFrame
          /\ (/\ subs[s].state = "open"
              /\ subs[s].queue.items = << >>
              /\ subs'[s].got # subs[s].got)
                 => /\ subs'[s].got = Append(subs[s].got, KeepaliveFrame)
                    /\ subs'[s].registered
                    /\ subs'[s].state = "open"]_vars

\* a client has received connected, then a frame that was broadcast while it
\* was registered, then a keepalive, and is still subscribed
C20_Witness ==
    \E s \in DOMAIN subs :
        /\ subs[s].registered
        /\ Len(subs[s].got) = 3
        /\ subs[s].got[1] = ConnectedFrame
        /\ Built(subs[s].got[2])
        /\ subs[s].got[3] = KeepaliveFrame


\* C21: validate_hazard on an event id that does not exist answers not found
\* (404, not a generic failure), leaves every hazard event unchanged and
\* broadcasts no hazard_validated frame.
C21_UnknownEventNotFound ==
    [][(/\ last'.op = "validate_hazard"
        /\ nval' # nval
        /\ last'.arg \notin 1..Len(events))
          => /\ last'.failed = "http_404"
             /\ events' = events
             /\ frames' = frames]_vars


\* C22: a fuse of group G creates an event or rewrites the event that an
\* earlier fuse of G wrote: no step replaces an event written by the fuse of
\* one group with the result of a fuse of another group.
C22_FuseWritesOwnEvent ==
    [][\A h \in 1..Len(events) :
          events[h].fused_group >= 1
              => events'[h].fused_group = events[h].fused_group]_vars


\* C23: when the store does not fail, every report that a pipeline run has
\* processed has, from the end of that run to the next fuse of its group, a
\* hazard event whose evidence lists exactly the ids of the processed
\* reports of its group.
C23_GroupHasItsEvent ==
    \A r \in Ids :
        reports[r].processed =>
            \E h \in 1..Len(events) :
                SeqRange(events[h].evidence.report_ids)
                    = SeqRange(group_members(reports, reports[r].group_id))


ClusterRows ==
    { NewReport(inp.source, inp.text, inp.place, inp.ts, FALSE, FALSE, FALSE) :
        inp \in ClusterInputs }

\* C25: reports with processed = false are neither among the candidates of
\* the clusterer nor among the reports handed to fusion: whatever the
\* unprocessed reports other than r are replaced with, the pipeline run of r
\* gives r the same row and leaves the same events.
C25_UnprocessedHaveNoInfluence ==
    [][\A r \in 1..MaxCluster :
          RunsOnUnprocessed(r) =>
              \A other \in [Ids -> ClusterRows] :
                  LET masked == [q \in Ids |->
                                    IF q = r \/ reports[q].processed
                                    THEN reports[q] ELSE other[q]]
                      out == process_single_report(masked, events, r, FALSE, "none")
                  IN  /\ out.reports[r] = reports'[r]
                      /\ out.events = events']_vars

\* a run has just processed a report while a report that matches it was in
\* the store unprocessed; the first got group 1 and the only event lists it
\* alone
C25_Witness ==
    /\ last.op = "process_report_async"
    /\ last.ok
    /\ last.arg \in Ids
    /\ reports[last.arg].group_id = 1
    /\ Len(events) = 1
    /\ events[1].evidence.report_ids = <<last.arg>>
    /\ \E p \in Ids :
          /\ ~reports[p].processed
          /\ combined_similarity(reports[last.arg], reports[p]) >= CombinedThreshold


\* the statuses the event listing filters by
StatusSet == {"approved", "pending", "review", "emergency", "confirmed", "rejected"}

\* C26: the status of every hazard event is one of approved, pending,
\* review, emergency, confirmed, rejected, whatever decision is passed to
\* validate (a missing decision included).
C26_StatusInClosedSet ==
    \A h \in 1..Len(events) : events[h].status \in StatusSet


\* the summed vote of kind k over the reports of a group
SummedVote(group, k) ==
    SeqSum([i \in 1..Len(group) |->
               IF group[i].nlp_type = k THEN VoteWeight(group[i]) ELSE 0])

\* C27: the consensus kind of a fuse has the largest summed vote, and among
\* the kinds with that vote it is the one highest in the priority order
\* emergency > tsunami > earthquake > landslide > flood > tides > unknown,
\* whatever the order of the reports.
C27_ConsensusByVoteThenPriority ==
    probe.op = "fuse_reports" =>
        \A i \in 1..Len(probe.group) :
            LET l == probe.group[i].nlp_type
            IN  \/ SummedVote(probe.group, l) < SummedVote(probe.group, probe.hazard_type)
                \/ /\ SummedVote(probe.group, l) = SummedVote(probe.group, probe.hazard_type)
                   /\ hazard_priorities(l) <= hazard_priorities(probe.hazard_type)


\* C28: an event fused from a single report that is not a bulletin has
\* severity min(5, 3 + severity_boost), where severity_boost is what the
\* classifier finds in the report's text.
C28_SeverityIncludesBoost ==
    \A h \in 1..Len(events) :
        (/\ events[h].evidence.fused
         /\ Len(events[h].evidence.report_ids) = 1
         /\ reports[events[h].evidence.report_ids[1]].source # "incois")
            => events[h].severity
                 = Min2(5, 3 + extract_severity_boost(
                                   reports[events[h].evidence.report_ids[1]].text))


\* C29: for a non-empty text and no media, classify_text with source citizen
\* or social returns a confidence in [0.08, 0.35], whatever the keyword
\* score of the text.
C29_LowTrustBand ==
    (/\ probe.op = "classify_text"
     /\ probe.source \in {"citizen", "social"}
     /\ ~probe.has_media)
        => /\ probe.confidence >= 800
           /\ probe.confidence <= 3500


\* C30: an event created by the emergency fast path is never changed by a
\* pipeline fuse of any group: its kind, confidence, severity, status and
\* evidence change only in a validate_hazard call on that event.
C30_FastPathEventKeptByFuse ==
    [][\A h \in 1..Len(events) :
          events[h].fused_group = 0 =>
              \/ events'[h] = events[h]
              \/ /\ last'.op = "validate_hazard"
                 /\ nval' # nval
                 /\ last'.arg = h
                 /\ events'[h].hazard_type = events[h].hazard_type
                 /\ events'[h].severity = events[h].severity
                 /\ events'[h].evidence = events[h].evidence]_vars

\* the fast path has stored its event for report 1, then a pipeline run has
\* fused group 1 (the decimal "1" occurs in the fast path's evidence) into an
\* event of its own, and the fast path's event is as it was created
C30_Witness ==
    /\ Len(events) = 2
    /\ events[1] = EmergencyEvent(1)
    /\ events[2].fused_group = 1
    /\ last.op = "process_single_report"
    /\ last.ok
    /\ reports[last.arg].group_id = 1

=============================================================================
